---- MODULE Spec2Model ----
(***************************************************************************)
(* Model of parse_blob_cache.py: the parser of Android blob cache files.   *)
(* Bytes are integers 0..255, byte strings are sequences of bytes, decoded *)
(* text is a sequence of code points.  One run of main() is one behaviour: *)
(* the container and the mode (-s or database) are chosen in Init.         *)
(***************************************************************************)
EXTENDS Integers, Sequences, FiniteSets, TLC

VARIABLES
    container,    \* bytes of args.FILE
    sanitize,     \* args.sanitize
    pc,           \* position of main(): Validate, ExpectHeader, ExpectPayload, Detect,
                  \* Parse, Done, Fatal
    err,          \* how the process died: "none", "FormatError", "struct.error", "CodecError"
    pos,          \* f.tell()
    out,          \* bytes written to the sanitized file o
    blob,         \* rows INSERTed into table blob in the open transaction
    blob_header,  \* rows INSERTed into table blob_header in the open transaction
    db,           \* rows of the database file once the process has ended
    offset,       \* loop local: offset
    rec_header,   \* loop local: rec_header
    data,         \* loop local: data
    metadata_end, \* loop local: metadata_end
    metadata,     \* loop local: metadata
    thumbnail,    \* loop local: thumbnail
    codec,        \* loop local: (codec, cp_len), or NoCodec before the first detection
    decoded_meta, \* loop local: decoded_meta
    meta_list     \* loop local: meta_list

vars == <<container, sanitize, pc, err, pos, out, blob, blob_header, db, offset,
          rec_header, data, metadata_end, metadata, thumbnail, codec,
          decoded_meta, meta_list>>

locals == <<offset, rec_header, data, metadata_end, metadata, thumbnail, codec,
            decoded_meta, meta_list>>

----------------------------------------------------------------------------
(* Generic helpers *)

Min(a, b) == IF a <= b THEN a ELSE b

Max(a, b) == IF a >= b THEN a ELSE b

SetMin(S) == CHOOSE x \in S : \A y \in S : x <= y

SetMax(S) == CHOOSE x \in S : \A y \in S : x >= y

\* Python slice b[lo:hi] with 0 <= lo, 0 <= hi (0-based, hi exclusive)
Slice(b, lo, hi) == SubSeq(b, lo + 1, Min(hi, Len(b)))

\* Python index normalisation of a slice bound: negative counts from the end
NormIndex(b, i) == IF i < 0 THEN Max(Len(b) + i, 0) ELSE Min(i, Len(b))

\* Python b[:e]
SliceTo(b, e) == Slice(b, 0, NormIndex(b, e))

\* Python b[s:]
SliceFrom(b, s) == Slice(b, NormIndex(b, s), Len(b))

\* b'\x00' * n
Zeros(n) == [i \in 1..n |-> 0]

\* little-endian unsigned 32 bit integer of 4 bytes ('I' of struct.unpack)
U32(b) == b[1] + 256 * b[2] + 65536 * b[3] + 16777216 * b[4]

\* 4 byte little-endian encoding of n (the producer's side of U32)
LE32(n) == << n % 256, (n \div 256) % 256, (n \div 65536) % 256, (n \div 16777216) % 256 >>

----------------------------------------------------------------------------
(* Constants of the program *)

file_magic == << 16, 133, 36, 189 >>

jpeg_header == << 255, 216, 255 >>

MagicLen == 4

RecHeaderLen == 20

ThumbSkip == 4

TsMinDigits == 10

TsMaxDigits == 16

codecs == << [codec |-> "utf-32-le", cp_len |-> 4],
             [codec |-> "utf-16-le", cp_len |-> 2] >>

NoCodec == [codec |-> "none", cp_len |-> 0]

\* Python None and str as values of one shape
None == [null |-> TRUE, v |-> << >>]

Str(s) == [null |-> FALSE, v |-> s]

----------------------------------------------------------------------------
(* bytes.find, bytes.decode, detect_codec *)

\* pat occurs in b at 0-based index i
OccursAt(b, pat, i) ==
    /\ i >= 0
    /\ i + Len(pat) <= Len(b)
    /\ \A k \in 1..Len(pat) : b[i + k] = pat[k]

\* a mutant of find: the last occurrence instead of the first
find_last(b, pat) ==
    LET hits == {i \in 0..Len(b) : OccursAt(b, pat, i)}
    IN  IF hits = {} THEN -1 ELSE SetMax(hits)

\* b.find(pat): 0-based index of the first occurrence, -1 when there is none
find(b, pat) ==
    LET hits == {i \in 0..Len(b) : OccursAt(b, pat, i)}
    IN  IF hits = {} THEN -1 ELSE SetMin(hits)

IsHighSurrogate(u) == u >= 55296 /\ u <= 56319

IsLowSurrogate(u) == u >= 56320 /\ u <= 57343

IsSurrogate(u) == IsHighSurrogate(u) \/ IsLowSurrogate(u)

\* what the utf-16-le decoder does at 1-based byte index i of b: "end",
\* "emit" one unit, "pair" (emit a surrogate pair), "skip" an illegal unit,
\* or "cut" (the input ends inside a unit or a pair)
Step16(b, i) ==
    IF i > Len(b) THEN "end"
    ELSE IF i + 1 > Len(b) THEN "cut"
    ELSE IF ~IsSurrogate(b[i] + 256 * b[i + 1]) THEN "emit"
    ELSE IF IsLowSurrogate(b[i] + 256 * b[i + 1]) THEN "skip"
    ELSE IF i + 3 > Len(b) THEN "cut"
    ELSE IF IsLowSurrogate(b[i + 2] + 256 * b[i + 3]) THEN "pair"
    ELSE "skip"

RECURSIVE Text16(_, _)
\* b[i..].decode('utf-16-le', 'ignore')
Text16(b, i) ==
    CASE Step16(b, i) \in {"end", "cut"} -> << >>
      [] Step16(b, i) = "emit" -> << b[i] + 256 * b[i + 1] >> \o Text16(b, i + 2)
      [] Step16(b, i) = "skip" -> Text16(b, i + 2)
      [] Step16(b, i) = "pair" ->
             << 65536 + (b[i] + 256 * b[i + 1] - 55296) * 1024
                      + (b[i + 2] + 256 * b[i + 3] - 56320) >> \o Text16(b, i + 4)

RECURSIVE Err16(_, _)
\* b[i..].decode('utf-16-le') raises UnicodeDecodeError
Err16(b, i) ==
    CASE Step16(b, i) = "end" -> FALSE
      [] Step16(b, i) \in {"cut", "skip"} -> TRUE
      [] Step16(b, i) = "emit" -> Err16(b, i + 2)
      [] Step16(b, i) = "pair" -> Err16(b, i + 4)

\* what the utf-32-le decoder does at 1-based byte index i of b; a unit is
\* a code point when it is at most 0x10FFFF and no surrogate
Step32(b, i) ==
    IF i > Len(b) THEN "end"
    ELSE IF i + 3 > Len(b) THEN "cut"
    ELSE IF /\ b[i + 3] = 0
            /\ b[i + 2] <= 16
            /\ ~(b[i + 2] = 0 /\ IsSurrogate(256 * b[i + 1]))
         THEN "emit"
    ELSE "skip"

RECURSIVE Text32(_, _)
\* b[i..].decode('utf-32-le', 'ignore')
Text32(b, i) ==
    CASE Step32(b, i) \in {"end", "cut"} -> << >>
      [] Step32(b, i) = "emit" ->
             << b[i] + 256 * b[i + 1] + 65536 * b[i + 2] >> \o Text32(b, i + 4)
      [] Step32(b, i) = "skip" -> Text32(b, i + 4)

RECURSIVE Err32(_, _)
\* b[i..].decode('utf-32-le') raises UnicodeDecodeError
Err32(b, i) ==
    CASE Step32(b, i) = "end" -> FALSE
      [] Step32(b, i) \in {"cut", "skip"} -> TRUE
      [] Step32(b, i) = "emit" -> Err32(b, i + 4)

\* b.decode(c) does not raise UnicodeDecodeError
DecodesStrict(b, c) == IF c = "utf-32-le" THEN ~Err32(b, 1) ELSE ~Err16(b, 1)

\* b.decode(c, 'ignore')
DecodeIgnore(b, c) == IF c = "utf-32-le" THEN Text32(b, 1) ELSE Text16(b, 1)

\* a mutant of detect_codec: the candidates tried in the opposite order
detect_codec_rev(sample) ==
    LET ok == {i \in DOMAIN codecs : DecodesStrict(sample, codecs[i].codec)}
    IN  IF ok = {} THEN [exit |-> TRUE, codec |-> "none", cp_len |-> 0]
        ELSE [exit |-> FALSE, codec |-> codecs[SetMax(ok)].codec,
              cp_len |-> codecs[SetMax(ok)].cp_len]

\* detect_codec(data): the first of codecs that decodes the sample, or
\* sys.exit(1) when none does
detect_codec(sample) ==
    LET ok == {i \in DOMAIN codecs : DecodesStrict(sample, codecs[i].codec)}
    IN  IF ok = {} THEN [exit |-> TRUE, codec |-> "none", cp_len |-> 0]
        ELSE [exit |-> FALSE, codec |-> codecs[SetMin(ok)].codec,
              cp_len |-> codecs[SetMin(ok)].cp_len]

----------------------------------------------------------------------------
(* meta_re = (.+?)\+(\d?)\+?(.+?)\+(\d{10,16})\+?(.+)*   and findall()[0]   *)
(* \d is taken on the code points below U+0660, where the decimal digits   *)
(* are 0-9; the containers of Init decode to such text.                    *)

Ch == [plus |-> 43, nl |-> 10, zero |-> 48, nine |-> 57, a |-> 97, b |-> 98,
       f |-> 102, x |-> 120]

IsDigit(c) == c >= Ch.zero /\ c <= Ch.nine

\* . matches everything but a newline
IsDot(c) == c # Ch.nl

PlusAt(t, i) == i >= 1 /\ i <= Len(t) /\ t[i] = Ch.plus

\* t[i..j] is matched by .+ or is empty
AllDot(t, i, j) == \A k \in i..j : IsDot(t[k])

\* length of the longest run of digits of t that starts at 1-based index i
DigitRun(t, i) ==
    SetMax({k \in 0..Max(Len(t) - i + 1, 0) : \A j \in i..(i + k - 1) : IsDigit(t[j])})

\* length of the longest run of non-newlines of t that starts at index i
DotRun(t, i) ==
    SetMax({k \in 0..Max(Len(t) - i + 1, 0) : \A j \in i..(i + k - 1) : IsDot(t[j])})

\* 1-based index where group 3 starts, for a first '+' at index a
G3Start(a, d2, p) == a + 1 + d2 + p

\* A way for the pattern to match t: the match starts at s, the '+' after
\* group 1 is at a, group 2 holds d2 digits, the optional '+' takes p
\* characters, and the '+' before the timestamp is at b.
IsMatch(t, s, a, d2, p, b) ==
    /\ s >= 1 /\ a > s /\ PlusAt(t, a) /\ AllDot(t, s, a - 1)
    /\ d2 = 1 => (a + 1 <= Len(t) /\ IsDigit(t[a + 1]))
    /\ p = 1 => PlusAt(t, a + 1 + d2)
    /\ b > G3Start(a, d2, p) /\ PlusAt(t, b) /\ AllDot(t, G3Start(a, d2, p), b - 1)
    /\ DigitRun(t, b + 1) >= TsMinDigits

Matches(t) ==
    LET plus == {i \in 1..Len(t) : PlusAt(t, i)}
        stamps == {i \in plus : DigitRun(t, i + 1) >= TsMinDigits}
    IN  {m \in (1..Len(t)) \X plus \X {0, 1} \X {0, 1} \X stamps :
            IsMatch(t, m[1], m[2], m[3], m[4], m[5])}

\* The order in which a backtracking matcher finds the matches: leftmost
\* start, lazy group 1, greedy \d?, greedy \+?, lazy group 3.
Before(m, n) ==
    \/ m[1] < n[1]
    \/ m[1] = n[1] /\ m[2] < n[2]
    \/ m[1] = n[1] /\ m[2] = n[2] /\ m[3] > n[3]
    \/ m[1] = n[1] /\ m[2] = n[2] /\ m[3] = n[3] /\ m[4] > n[4]
    \/ m[1] = n[1] /\ m[2] = n[2] /\ m[3] = n[3] /\ m[4] = n[4] /\ m[5] <= n[5]

\* the five groups of match m, as findall returns them ('' for a group that
\* took no part)
Groups(t, m) ==
    LET a == m[2]
        b == m[5]
        k == Min(DigitRun(t, b + 1), TsMaxDigits)
        e == b + k + 1
        q == IF PlusAt(t, e) THEN e + 1 ELSE e
    IN  << Str(SubSeq(t, m[1], a - 1)),
           Str(SubSeq(t, a + 1, a + m[3])),
           Str(SubSeq(t, G3Start(a, m[3], m[4]), b - 1)),
           Str(SubSeq(t, b + 1, b + k)),
           Str(SubSeq(t, q, q + DotRun(t, q) - 1)) >>

\* a mutant of MetaList: empty strings instead of None when nothing matches
MetaList_empty(t) ==
    LET ms == Matches(t)
    IN  IF ms = {} THEN [i \in 1..5 |-> Str(<< >>)]
        ELSE Groups(t, CHOOSE m \in ms : \A n \in ms : Before(m, n))

\* meta_re.findall(decoded_meta)[0], or [None] * 5 on IndexError
MetaList(t) ==
    LET ms == Matches(t)
    IN  IF ms = {} THEN [i \in 1..5 |-> None]
        ELSE Groups(t, CHOOSE m \in ms : \A n \in ms : Before(m, n))

----------------------------------------------------------------------------
(* The containers the runs are checked on *)

MaxRecords == 2

MaxExcess == 1

MaxJunk == 1

\* a run of n decimal digits: 1234567890123...
Digits(n) == [i \in 1..n |-> Ch.zero + (i % 10)]

\* text before the timestamp: internal path, unk and original file path,
\* with the fields the producer may leave out left out
Heads ==
    { << Ch.a, Ch.plus, Ch.zero, Ch.plus, Ch.f, Ch.plus >>,           \* a+0+f+
      << Ch.a, Ch.plus, Ch.zero, Ch.plus >>,                          \* a+0+
      << Ch.a, Ch.b, Ch.plus, Ch.nine, Ch.plus >>,                    \* ab+9+
      << Ch.a, Ch.plus, Ch.plus, Ch.f, Ch.plus >>,                    \* a++f+
      << Ch.a, Ch.plus, Ch.f, Ch.plus >>,                             \* a+f+
      << Ch.a, Ch.plus, Ch.plus >>,                                   \* a++
      << Ch.a, Ch.plus >>,                                            \* a+
      << Ch.a, Ch.plus, Ch.zero, Ch.f, Ch.plus >>,                    \* a+0f+
      << Ch.a, Ch.plus, Ch.zero, Ch.plus, Ch.f, Ch.plus, Ch.f, Ch.plus >>, \* a+0+f+f+
      << Ch.a, Ch.nl, Ch.b, Ch.plus, Ch.zero, Ch.plus, Ch.f, Ch.plus >>,   \* a\nb+0+f+
      << Ch.plus, Ch.zero, Ch.plus >>,                                \* +0+
      << Ch.a >>,                                                     \* a
      << >> }

PlainHeads ==
    { << Ch.a, Ch.plus, Ch.zero, Ch.plus, Ch.f, Ch.plus >>,
      << Ch.a, Ch.plus, Ch.zero, Ch.plus >>,
      << Ch.a, Ch.plus, Ch.f, Ch.plus >> }

StampLens == {TsMinDigits - 1, TsMinDigits, TsMaxDigits, TsMaxDigits + 1}

Tails ==
    { << >>, << Ch.plus >>, << Ch.plus, Ch.x >>, << Ch.x >>,
      << Ch.plus, Ch.x, Ch.nl, Ch.x >> }

\* every head with no and with an extra field, the plain heads with every
\* tail
Texts ==
    {h \o Digits(n) \o t : h \in Heads, n \in StampLens, t \in {<< >>, << Ch.plus, Ch.x >>}}
        \cup {h \o Digits(n) \o t : h \in PlainHeads, n \in StampLens, t \in Tails}
        \cup {<< >>, << Ch.a >>}

\* the producer's utf-16-le encoding of text below U+10000
Enc16(t) == [i \in 1..(2 * Len(t)) |->
                IF i % 2 = 1 THEN t[(i + 1) \div 2] % 256 ELSE t[i \div 2] \div 256]

\* the producer's utf-32-le encoding, ended by the utf-16-le string '+kar'
Enc32(t) == [i \in 1..(4 * Len(t)) |->
                IF i % 4 = 1 THEN t[(i + 3) \div 4] % 256
                ELSE IF i % 4 = 2 THEN t[(i + 2) \div 4] \div 256
                ELSE 0]
            \o << 43, 0, 107, 0, 97, 0, 114, 0 >>

\* thumbnails: with the marker (alone, with one, two and five more bytes, the
\* last holding a second marker) and without it
Thumbs ==
    { jpeg_header,
      jpeg_header \o << 224 >>,
      jpeg_header \o << 224, 7 >>,
      jpeg_header \o << 224 >> \o jpeg_header \o << 9 >>,
      << >>,
      << 7 >>,
      << 255, 216 >> }

\* metadata bytes that are no utf-16-le or utf-32-le text
OddMeta ==
    { << 97 >>, << 97, 0, 98 >>, << 0, 216, 97, 0 >>, << 0, 220, 48, 0 >>,
      << 0, 216, 0, 220 >>, << 97, 0, 0, 216, 98 >>, << 255, 255, 16, 0 >> }

BasicTexts ==
    { << Ch.a, Ch.plus, Ch.zero, Ch.plus, Ch.f, Ch.plus >> \o Digits(TsMinDigits),
      << Ch.a, Ch.plus, Ch.zero, Ch.plus >> \o Digits(TsMinDigits),
      << Ch.a >> }

\* the payloads of the record a run ends on
Payloads ==
    {Enc16(t) \o jpeg_header \o << 224, 7 >> : t \in Texts}
        \cup {Enc32(h \o Digits(TsMinDigits)) \o jpeg_header \o << 224 >> : h \in Heads}
        \cup {Enc16(t) \o th : t \in BasicTexts, th \in Thumbs}
        \cup {m \o th : m \in OddMeta, th \in Thumbs}

\* the payloads of the records before it
EarlyPayloads ==
    { Enc16(<< Ch.a, Ch.plus, Ch.zero, Ch.plus, Ch.f, Ch.plus >> \o Digits(TsMinDigits))
          \o jpeg_header \o << 224, 7 >>,
      << 97, 0, 98, 0, 7 >> }

\* a record as the producer writes it: key, checksum, blob offset, declared
\* payload length, payload
Record(payload, declared) ==
    << 65, 66, 67, 68, 69, 70, 71, 72 >> \o LE32(1) \o LE32(0) \o LE32(declared) \o payload

\* what a file that is no blob cache may start with
BadPrefixes == {<< 16, 133, 36, 0 >>, << 16, 133, 36 >>, << 133, 16, 36, 189 >>, << >>}

\* containers of n records: the declared length is the payload's length but
\* for the last record, which may declare up to MaxExcess bytes more than
\* the file holds; up to MaxJunk bytes may follow the last record
RECURSIVE Bodies(_)
Bodies(n) ==
    IF n = 0 THEN {<< >>}
    ELSE {Record(p, Len(p)) \o b : p \in EarlyPayloads, b \in Bodies(n - 1)}
             \cup {Record(p, Len(p) + x) : p \in Payloads, x \in 0..MaxExcess}

Junk(j) == [i \in 1..j |-> 7]

\* the containers the termination of the loop is checked on: records with
\* and without marker, with metadata no codec decodes, with no payload
LoopPayloads ==
    { Enc16(<< Ch.a, Ch.plus >>) \o jpeg_header \o << 224, 7 >>,
      << 97, 0, 98, 0, 7 >>,
      << 97, 0, 98 >> \o jpeg_header,
      << >> }

RECURSIVE LoopBodies(_)
LoopBodies(n) ==
    IF n = 0 THEN {<< >>}
    ELSE {Record(p, Len(p)) \o b : p \in LoopPayloads, b \in LoopBodies(n - 1)}
             \cup {Record(p, Len(p) + x) : p \in LoopPayloads, x \in 0..MaxExcess}

LoopContainers ==
    {file_magic \o b \o Junk(j) : b \in LoopBodies(MaxRecords) \cup {<< >>}, j \in 0..MaxJunk}
        \cup {<< 16, 133, 36 >>}

Containers ==
    {file_magic \o b \o Junk(j) : b \in Bodies(MaxRecords) \cup {<< >>}, j \in 0..MaxJunk}
        \cup {pre \o b \o Junk(j) :
                 pre \in BadPrefixes,
                 b \in {<< >>} \cup {Record(p, Len(p)) : p \in EarlyPayloads},
                 j \in 0..MaxJunk}

----------------------------------------------------------------------------
(* main() *)

fsize == Len(container)

\* f.read(n) at position p: the bytes that are there, at most n
read(p, n) == SubSeq(container, p + 1, Min(p + n, fsize))

\* a mutant of IsMagic: only as many bytes as were read are compared
IsMagic_prefix(file_header) ==
    \A i \in 1..Len(file_header) : file_header[i] = file_magic[i]

\* file_header == b'\x10\x85\x24\xBD'
IsMagic(file_header) == file_header = file_magic

\* a mutant of AtEOF: the loop also ends when less than a header is left
AtEOF_short(o) == o + RecHeaderLen > fsize

\* offset == fsize
AtEOF(o) == o = fsize

\* unpack('<8s3I', rec_header) of a 20 byte header
unpack(h) ==
    [key |-> SubSeq(h, 1, 8), chksum |-> U32(SubSeq(h, 9, 12)),
     recoffset |-> U32(SubSeq(h, 13, 16)), payloadlen |-> U32(SubSeq(h, 17, 20))]

\* what -s writes for one record
Sanitized(h, m, th) ==
    h \o m \o jpeg_header \o Zeros(Len(SliceFrom(th, ThumbSkip)))

\* the row of table blob; an empty or missing extra is stored as NULL
BlobRow(o, ml, th, m) ==
    [Offset |-> o, InternalPath |-> ml[1], Unk |-> ml[2],
     OriginalFilePath |-> ml[3], TimeStamp |-> ml[4],
     Extra |-> IF ml[5].null \/ ml[5].v = << >> THEN None ELSE ml[5],
     Thumbnail |-> th, RawMetadata |-> m]

\* the row of table blob_header
HeaderRow(o, h) ==
    [Offset |-> o, Key |-> unpack(h).key, Checksum |-> unpack(h).chksum,
     BlobOffset |-> unpack(h).recoffset, BlobLength |-> unpack(h).payloadlen,
     RawBlobHeader |-> h]

EmptyDb == [blob |-> << >>, blob_header |-> << >>]

\* the state in which main() opens container c
Start(c) ==
    /\ container = c
    /\ sanitize \in BOOLEAN
    /\ pc = "Validate"
    /\ err = "none"
    /\ pos = 0
    /\ out = << >>
    /\ blob = << >>
    /\ blob_header = << >>
    /\ db = EmptyDb
    /\ offset = 0
    /\ rec_header = << >>
    /\ data = << >>
    /\ metadata_end = 0
    /\ metadata = << >>
    /\ thumbnail = << >>
    /\ codec = NoCodec
    /\ decoded_meta = << >>
    /\ meta_list = [i \in 1..5 |-> None]

Init == \E c \in Containers : Start(c)

InitLoop == \E c \in LoopContainers : Start(c)

\* lines 112-119: read the file header, quit if it is not the magic
Validate ==
    /\ pc = "Validate"
    /\ LET file_header == read(pos, MagicLen)
       IN  IF ~IsMagic(file_header)
           THEN /\ pc' = "Fatal"
                /\ err' = "FormatError"
                /\ out' = out
           ELSE /\ pc' = "ExpectHeader"
                /\ err' = err
                /\ out' = IF sanitize THEN out \o file_header ELSE out
    /\ pos' = pos + Len(read(pos, MagicLen))
    /\ UNCHANGED <<container, sanitize, blob, blob_header, db, locals>>

\* lines 124-128, 177-180: the loop ends at EOF; commit, close
Finish ==
    /\ pc = "ExpectHeader"
    /\ AtEOF(pos)
    /\ offset' = pos
    /\ pc' = "Done"
    /\ db' = IF sanitize THEN db ELSE [blob |-> blob, blob_header |-> blob_header]
    /\ UNCHANGED <<container, sanitize, err, pos, out, blob, blob_header, rec_header,
                   data, metadata_end, metadata, thumbnail, codec, decoded_meta,
                   meta_list>>

\* lines 124-133: read the record header; unpack raises struct.error on a
\* header of less than 20 bytes
ReadHeader ==
    /\ pc = "ExpectHeader"
    /\ ~AtEOF(pos)
    /\ offset' = pos
    /\ rec_header' = read(pos, RecHeaderLen)
    /\ pos' = pos + Len(read(pos, RecHeaderLen))
    /\ IF Len(read(pos, RecHeaderLen)) # RecHeaderLen
       THEN pc' = "Fatal" /\ err' = "struct.error"
       ELSE pc' = "ExpectPayload" /\ err' = err
    /\ UNCHANGED <<container, sanitize, out, blob, blob_header, db, data,
                   metadata_end, metadata, thumbnail, codec, decoded_meta, meta_list>>

\* lines 137-148: read the payload and split it at the marker; with -s write
\* the record to the sanitized file and go on to the next record
ReadPayload ==
    /\ pc = "ExpectPayload"
    /\ LET d == read(pos, unpack(rec_header).payloadlen)
           e == find(d, jpeg_header)
       IN  /\ data' = d
           /\ pos' = pos + Len(d)
           /\ metadata_end' = e
           /\ metadata' = SliceTo(d, e)
           /\ thumbnail' = SliceFrom(d, e)
           /\ out' = IF sanitize
                     THEN out \o Sanitized(rec_header, SliceTo(d, e), SliceFrom(d, e))
                     ELSE out
    /\ pc' = IF sanitize THEN "ExpectHeader" ELSE "Detect"
    /\ UNCHANGED <<container, sanitize, err, blob, blob_header, db, offset, rec_header,
                   codec, decoded_meta, meta_list>>

\* lines 154-155: detect the codec on the first 4 bytes of the metadata and
\* decode the metadata; sys.exit(1) when no codec is found
Detect ==
    /\ pc = "Detect"
    /\ IF detect_codec(SliceTo(metadata, 4)).exit
       THEN /\ pc' = "Fatal"
            /\ err' = "CodecError"
            /\ UNCHANGED <<codec, decoded_meta>>
       ELSE /\ codec' = [codec |-> detect_codec(SliceTo(metadata, 4)).codec,
                         cp_len |-> detect_codec(SliceTo(metadata, 4)).cp_len]
            /\ decoded_meta' = DecodeIgnore(metadata, detect_codec(SliceTo(metadata, 4)).codec)
            /\ pc' = "Parse"
            /\ err' = err
    /\ UNCHANGED <<container, sanitize, pos, out, blob, blob_header, db, offset,
                   rec_header, data, metadata_end, metadata, thumbnail, meta_list>>

\* lines 156-173: parse the decoded metadata and insert the record
Parse ==
    /\ pc = "Parse"
    /\ meta_list' = MetaList(decoded_meta)
    /\ blob' = Append(blob, BlobRow(offset, MetaList(decoded_meta), thumbnail, metadata))
    /\ blob_header' = Append(blob_header, HeaderRow(offset, rec_header))
    /\ pc' = "ExpectHeader"
    /\ UNCHANGED <<container, sanitize, err, pos, out, db, offset, rec_header, data,
                   metadata_end, metadata, thumbnail, codec, decoded_meta>>

Next == Validate \/ ReadHeader \/ ReadPayload \/ Detect \/ Parse \/ Finish

Spec == Init /\ [][Next]_vars

\* the runs on the containers of LoopContainers; the process is the only
\* one and runs until it exits
FairSpec == InitLoop /\ [][Next]_vars /\ WF_vars(Next)

----------------------------------------------------------------------------
(* Properties *)

\* the loop locals describe a record whose payload step has just run
AfterPayload == Len(rec_header) = RecHeaderLen /\ pc \in {"ExpectHeader", "Fatal"}

\* the bytes of the container that follow the header read at offset
BytesAfterHeader == fsize - (offset + RecHeaderLen)

\* the payload of the record at offset, as the container holds it
PayloadInFile ==
    SubSeq(container, offset + RecHeaderLen + 1,
           Min(offset + RecHeaderLen + unpack(rec_header).payloadlen, fsize))

HasMarker(b) == \E i \in 0..Len(b) : OccursAt(b, jpeg_header, i)

FirstMarker(b, i) ==
    OccursAt(b, jpeg_header, i) /\ \A j \in 0..(i - 1) : ~OccursAt(b, jpeg_header, j)

LastRow == blob[Len(blob)]

\* C1: when a record header declares a payload longer than what is left of
\* the container, the run ends Fatal at that record: it does not go on to
\* Done and no record with a shortened payload is written.
C1_TruncatedPayloadIsFatal ==
    (/\ Len(rec_header) = RecHeaderLen
     /\ pc \in {"ExpectHeader", "Done", "Fatal"}
     /\ unpack(rec_header).payloadlen > BytesAfterHeader)
        => /\ pc = "Fatal"
           /\ \A i \in 1..Len(blob) : blob[i].Offset # offset

RECURSIVE AllMarked(_, _)
\* from position p on, c is complete records that each hold the marker
AllMarked(c, p) ==
    IF p = Len(c) THEN TRUE
    ELSE /\ p + RecHeaderLen <= Len(c)
         /\ LET n == U32(SubSeq(c, p + 17, p + 20))
            IN  /\ p + RecHeaderLen + n <= Len(c)
                /\ HasMarker(SubSeq(c, p + RecHeaderLen + 1, p + RecHeaderLen + n))
                /\ AllMarked(c, p + RecHeaderLen + n)

RECURSIVE Redacted(_, _)
\* the records of c from p on with every byte after a record's marker zeroed
Redacted(c, p) ==
    IF p >= Len(c) THEN << >>
    ELSE LET n == U32(SubSeq(c, p + 17, p + 20))
             payload == SubSeq(c, p + RecHeaderLen + 1, p + RecHeaderLen + n)
             i == CHOOSE k \in 0..Len(payload) : FirstMarker(payload, k)
         IN  SubSeq(c, p + 1, p + RecHeaderLen)
                 \o SubSeq(payload, 1, i + Len(jpeg_header))
                 \o Zeros(n - i - Len(jpeg_header))
                 \o Redacted(c, p + RecHeaderLen + n)

\* C2: the sanitized copy of a container whose records all hold the marker
\* is as long as the container and equals it but for the bytes after each
\* record's marker, which are zero.
C2_RedactionKeepsLayout ==
    (sanitize /\ pc = "Done" /\ AllMarked(container, MagicLen))
        => /\ Len(out) = Len(container)
           /\ out = file_magic \o Redacted(container, MagicLen)

\* C3: when the run aborts, the records written before the abort are what
\* the sink holds after the run.
C3_FatalKeepsEarlierOutput ==
    (pc = "Fatal" /\ ~sanitize)
        => /\ db.blob = blob
           /\ db.blob_header = blob_header

\* C4: a payload without the marker is split at position 0: the record is
\* produced, its thumbnail is the whole payload, its metadata is empty.
C4_NoMarkerSplitsAtZero ==
    (AfterPayload /\ ~HasMarker(data))
        => /\ pc = "ExpectHeader"
           /\ thumbnail = data
           /\ metadata = << >>

\* the row written for a record whose metadata is not understood
NullRow ==
    [Offset |-> offset, InternalPath |-> None, Unk |-> None,
     OriginalFilePath |-> None, TimeStamp |-> None, Extra |-> None,
     Thumbnail |-> thumbnail, RawMetadata |-> metadata]

\* C5: a record whose decoded metadata does not match the grammar is written
\* once, with the five parsed fields NULL and the raw metadata and thumbnail
\* bytes of the payload, and the reader goes on to the next header.
C5_MismatchIsRecoverable ==
    [][(pc = "Parse" /\ Matches(decoded_meta) = {})
           => /\ pc' = "ExpectHeader"
              /\ blob' = Append(blob, NullRow)
              /\ \A i \in 1..Len(blob) : blob[i].Offset # offset
              /\ Len(blob_header') = Len(blob_header) + 1
              /\ metadata \o thumbnail = PayloadInFile]_vars

C5_Witness ==
    /\ pc = "ExpectHeader"
    /\ ~sanitize
    /\ Len(blob) = 2
    /\ LastRow.InternalPath.null
    /\ Len(LastRow.RawMetadata) > 2 * TsMinDigits
    /\ Len(LastRow.Thumbnail) > 0

\* the first 4 bytes of the container (fewer when it is shorter)
FilePrefix == SubSeq(container, 1, Min(MagicLen, fsize))

\* C6: a container that does not start with the magic fails before the loop:
\* no header is read, nothing is written; one that does passes the check
\* once and the loop starts at cursor 4.
C6_MagicCheckedFirst ==
    /\ []((pc # "Validate" /\ FilePrefix # file_magic)
              => /\ pc = "Fatal" /\ err = "FormatError"
                 /\ rec_header = << >> /\ data = << >>
                 /\ out = << >> /\ blob = << >> /\ blob_header = << >>
                 /\ db = EmptyDb)
    /\ []((pc # "Validate" /\ FilePrefix = file_magic)
              => err # "FormatError" /\ pos >= MagicLen)
    /\ [][(pc = "Validate" /\ FilePrefix = file_magic)
              => pc' = "ExpectHeader" /\ pos' = MagicLen]_vars
    /\ [][pc # "Validate" => pc' # "Validate"]_vars

C6_Witness ==
    /\ pc = "Fatal"
    /\ err = "FormatError"
    /\ fsize > MagicLen + RecHeaderLen
    /\ Len(FilePrefix) = MagicLen

\* C7: a payload that holds the marker is split at the marker's first
\* occurrence i: the metadata is payload[0..i), the thumbnail payload[i..).
C7_SplitAtFirstMarker ==
    (AfterPayload /\ HasMarker(data))
        => /\ data = PayloadInFile
           /\ \A i \in 0..Len(data) :
                  FirstMarker(data, i)
                      => /\ metadata = SubSeq(data, 1, i)
                         /\ thumbnail = SubSeq(data, i + 1, Len(data))
           /\ ~HasMarker(metadata)
           /\ OccursAt(thumbnail, jpeg_header, 0)
           /\ metadata \o thumbnail = data

C7_Witness ==
    /\ AfterPayload
    /\ Len(metadata) > 0
    /\ \E i \in 1..Len(thumbnail) : OccursAt(thumbnail, jpeg_header, i)

\* t is internalPath '+' digit '+' timestamp, with or without '+' extra; the
\* first '+' is at index i and the timestamp has n digits
OmittedPathForm(t, i, n) ==
    /\ i >= 2 /\ PlusAt(t, i)
    /\ \A j \in 1..(i - 1) : t[j] # Ch.plus
    /\ i + 1 <= Len(t) /\ IsDigit(t[i + 1])
    /\ PlusAt(t, i + 2)
    /\ n = DigitRun(t, i + 3)
    /\ n >= TsMinDigits /\ n <= TsMaxDigits
    /\ (i + 2 + n = Len(t) \/ PlusAt(t, i + 3 + n))

\* C8: metadata with the original file path left out parses to the internal
\* path, the digit as unk, no original file path, and the timestamp.
C8_OmittedPathKeepsUnk ==
    (AfterPayload /\ pc = "ExpectHeader" /\ ~sanitize)
        => \A i \in 1..Len(decoded_meta), n \in TsMinDigits..TsMaxDigits :
               OmittedPathForm(decoded_meta, i, n)
                   => /\ LastRow.InternalPath = Str(SubSeq(decoded_meta, 1, i - 1))
                      /\ LastRow.Unk = Str(<< decoded_meta[i + 1] >>)
                      /\ LastRow.OriginalFilePath \in {None, Str(<< >>)}
                      /\ LastRow.TimeStamp = Str(SubSeq(decoded_meta, i + 3, i + 2 + n))

\* C9: the codec of a record is the first of utf-32-le (4), utf-16-le (2)
\* that decodes the first 4 bytes of its metadata; when neither does the
\* run ends there and nothing more is written.
C9_FirstCodecOrExit ==
    /\ [][pc = "Detect"
            => LET sample == SubSeq(metadata, 1, Min(4, Len(metadata)))
               IN  IF DecodesStrict(sample, "utf-32-le")
                   THEN codec' = [codec |-> "utf-32-le", cp_len |-> 4] /\ pc' = "Parse"
                   ELSE IF DecodesStrict(sample, "utf-16-le")
                   THEN codec' = [codec |-> "utf-16-le", cp_len |-> 2] /\ pc' = "Parse"
                   ELSE /\ pc' = "Fatal" /\ err' = "CodecError"
                        /\ UNCHANGED <<blob, blob_header, out, db>>]_vars
    /\ [][pc = "Fatal" => UNCHANGED <<pc, pos, blob, blob_header, out, db>>]_vars

C9_Witness ==
    /\ pc = "Fatal"
    /\ err = "CodecError"
    /\ Len(blob) > 0
    /\ Len(metadata) >= 4

\* C10: the cursor starts at 4, never passes the end of the container and
\* grows in every iteration that does not end Fatal; every run ends Done or
\* Fatal, Done only with the cursor at the end, and Fatal when 1 to 19
\* bytes are left at the start of an iteration.
C10_LoopTerminates ==
    /\ [][(pc = "Validate" /\ pc' = "ExpectHeader") => pos' = MagicLen]_vars
    /\ [](pos <= fsize)
    /\ [][pos' >= pos]_vars
    /\ [][(pc \in {"ExpectPayload", "Parse"} /\ pc' = "ExpectHeader") => pos' > offset]_vars
    /\ [][(pc = "ExpectHeader" /\ pc' = "ExpectPayload") => offset' = pos /\ pos' > pos]_vars
    /\ <>(pc \in {"Done", "Fatal"})
    /\ [](pc = "Done" => pos = fsize)
    /\ [][(pc = "ExpectHeader" /\ fsize - pos >= 1 /\ fsize - pos < RecHeaderLen)
            => pc' = "Fatal"]_vars

C10_Witness ==
    /\ pc = "Fatal"
    /\ err = "struct.error"
    /\ fsize - offset >= 1
    /\ fsize - offset < RecHeaderLen
    /\ offset > MagicLen + RecHeaderLen

====
